---- MODULE Spec2Model ----
(***************************************************************************)
(* pipe2 (src/main.rs): a parent process spawns a child with both output   *)
(* streams piped, then runs a polling loop that makes one non-blocking     *)
(* read attempt on the child's stdout, one on its stderr, and one          *)
(* try_wait() per iteration, sleeping 10 ms between iterations.  Every     *)
(* chunk read is written and flushed to the parent's own stream and        *)
(* appended to a per-stream accumulator.                                   *)
(*                                                                         *)
(* The parent is one sequential process (pc, cur).  The child is a second  *)
(* process whose steps (write, close, exit) interleave with the parent's   *)
(* system calls.  Both build variants of the source are modelled: "unix"   *)
(* (#[cfg(unix)], O_NONBLOCK + read) and "windows" (#[cfg(windows)],       *)
(* PeekNamedPipe + ReadFile).                                              *)
(***************************************************************************)
EXTENDS Integers, Sequences, FiniteSets, TLC

\* ------------------------------------------------------------ bounds
\* Capacity of the scratch buffer.  The source uses 1024 (main.rs:85); the
\* model scales it down so that a pipe can hold more than one buffer-full.
ScratchLen == 2
\* Capacity of an OS pipe buffer (64 KiB on Linux); scaled, > ScratchLen.
PipeCap == 3
\* Longest byte sequence the child writes to stdout / stderr.  stdout's is
\* longer than a pipe, so the child can fill the stdout pipe and have more to
\* write; the stderr block of the loop is the same code on the other pipe.
MaxOut == 4
MaxErr == 2

Streams == {"stdout", "stderr"}
Variants == {"unix", "windows"}
ExitCodes == {0, 7}
\* Option values: None is the empty tuple, Some(x) the one-element tuple.
NoneV == <<>>
Some(x) == <<x>>

\* The i-th byte the child writes to a stream.  The loop never inspects a
\* byte, so pairwise distinct bytes are the most discriminating data: any
\* loss, duplication, reordering or cross-stream leak changes the sequence.
\* stdout carries a,b,c,... (97..) and stderr x,y,... (120..).
ByteOf(s, i) == IF s = "stdout" THEN 96 + i ELSE 119 + i
DataOf(s, k) == [i \in 1..k |-> ByteOf(s, i)]
MaxData(s) == IF s = "stdout" THEN MaxOut ELSE MaxErr

VARIABLES
  variant,     \* build variant (cfg(unix) / cfg(windows))
  pc,          \* parent's position in main
  cur,         \* which drain block of the iteration the parent is in
  loopst,      \* NotStarted / Running / Exited / Failed
  exit,        \* the exit status bound by `let Some(exit) = loop {..}`
  status,      \* the parent's own process outcome (None while running)
  child,       \* "none" / "running" / "exited"
  exitCode,    \* the status the child exited with (None while it runs)
  sent,        \* sent[s]: number of bytes the child has written to s
  open,        \* open[s]: the child still holds the write end of s
  pipe,        \* pipe[s]: unread bytes in the OS pipe of s
  scratchpad,  \* the shared scratch buffer
  n,           \* byte count of the last successful read
  buf,         \* buf[s]: accumulator (stdout_buf / stderr_buf)
  sink,        \* sink[s]: parent's own stream, [written, flushed]
  printed,     \* lines printed by the report (or the fallback branch)
  ops,         \* operations performed in the current iteration, in order
  did,         \* kinds of operation performed so far in the run
  drained,     \* streams on which a read attempt happened after child exit
  rd,          \* outcome of the latest read attempt, [s, kind]
  faulted      \* an I/O operation has reported a failure to main (a failed
               \* availability query, which can_read hides, shows in rd only)

vars == <<variant, pc, cur, loopst, exit, status, child, exitCode, sent,
          open, pipe, scratchpad, n, buf, sink, printed, ops, did, drained,
          rd, faulted>>

parentVars == <<pc, cur, loopst, exit, status, scratchpad, n, buf, sink,
                printed, ops, did, drained, rd, faulted>>
childVars == <<child, sent, open>>

\* ------------------------------------------------------------ helpers
Min(a, b) == IF a < b THEN a ELSE b
Take(s, k) == SubSeq(s, 1, k)
Drop(s, k) == SubSeq(s, k + 1, Len(s))
IsPrefix(p, s) == Len(p) <= Len(s) /\ Take(s, Len(p)) = p

stdout_buf == buf["stdout"]
stderr_buf == buf["stderr"]
\* Everything the child has written to s so far.
Written(s) == DataOf(s, sent[s])

Running == loopst = "Running"
Exited == loopst = "Exited"
Failed == loopst = "Failed"

\* A read of `chunk` into the scratch buffer overwrites its first Len(chunk)
\* bytes and leaves the rest as it was (main.rs:103, 119, 130, 146).
ReadInto(scratch, chunk) ==
  [i \in 1..Len(scratch) |-> IF i <= Len(chunk) THEN chunk[i] ELSE scratch[i]]

\* Mutant of the read length: a scratch buffer of length 0 (a Vec created
\* with_capacity instead of vec![0u8; 1024]) makes every read return 0.
ReadLen_EmptyVec(avail) == 0

\* Byte count of a read of a pipe holding `avail` bytes into the whole
\* scratch buffer, &mut scratchpad[..] (main.rs:103, 119).
ReadLen(avail) == Min(Len(scratchpad), avail)

\* Mutant of the chunk: the whole scratch buffer instead of its first n
\* bytes, which carries along what an earlier read left behind.
Chunk_Whole == scratchpad

\* &scratchpad[..n]: the chunk that is forwarded and accumulated
\* (main.rs:106, 108).
Chunk == Take(scratchpad, n)

\* Mutant of extend_from_slice: the chunk is put in front.
Extend_Prepend(acc, chunk) == chunk \o acc

\* extend_from_slice (main.rs:108, 135).
Extend(acc, chunk) == acc \o chunk

\* Mutants of the would-block guard: every error taken as would-block, and
\* would-block taken as a fatal error.
IsWouldBlock_Any(kind) == TRUE
IsWouldBlock_Never(kind) == FALSE

\* The guard of the would-block arm, e.kind() == WouldBlock (main.rs:110).
IsWouldBlock(kind) == kind = "WouldBlock"

\* First position of a drain block in the build variant.
DrainEntry == IF variant = "unix" THEN "read" ELSE "peek"

\* ------------------------------------------------------------ initial state
Init ==
  /\ variant \in Variants
  /\ pc = "spawn"
  /\ cur = "stdout"
  /\ loopst = "NotStarted"
  /\ exit = NoneV
  /\ status = NoneV
  /\ child = "none"
  /\ exitCode = NoneV
  /\ sent = [s \in Streams |-> 0]
  /\ open = [s \in Streams |-> FALSE]
  /\ pipe = [s \in Streams |-> <<>>]
  /\ scratchpad = [i \in 1..ScratchLen |-> 0]
  /\ n = 0
  /\ buf = [s \in Streams |-> <<>>]
  /\ sink = [s \in Streams |-> [written |-> <<>>, flushed |-> 0]]
  /\ printed = <<>>
  /\ ops = <<>>
  /\ did = {}
  /\ drained = {}
  /\ rd = [s |-> "none", kind |-> "none"]
  /\ faulted = FALSE

\* ------------------------------------------------------------ the child
\* The child writes the next k bytes of its output to stream s, as long as
\* the parent holds the read end.  A write needs room in the pipe: with a
\* full pipe the writer is blocked.
ChildWrite(s, k) ==
  /\ child = "running" /\ open[s] /\ pc # "done"
  /\ k >= 1 /\ k <= MaxData(s) - sent[s] /\ k <= PipeCap - Len(pipe[s])
  /\ pipe' = [pipe EXCEPT ![s] = @ \o SubSeq(DataOf(s, sent[s] + k), sent[s] + 1, sent[s] + k)]
  /\ sent' = [sent EXCEPT ![s] = @ + k]
  /\ UNCHANGED <<variant, exitCode, child, open, parentVars>>

\* The child closes a stream; it writes no more to it.
ChildClose(s) ==
  /\ child = "running" /\ open[s]
  /\ open' = [open EXCEPT ![s] = FALSE]
  /\ UNCHANGED <<variant, exitCode, child, sent, pipe, parentVars>>

\* The child exits with status c; the OS closes its handles.  What it wrote
\* before stays in the pipes.
ChildExit(c) ==
  /\ child = "running"
  /\ child' = "exited"
  /\ exitCode' = Some(c)
  /\ open' = [s \in Streams |-> FALSE]
  /\ UNCHANGED <<variant, sent, pipe, parentVars>>

Child == \/ \E s \in Streams, k \in 1..PipeCap : ChildWrite(s, k)
         \/ \E s \in Streams : ChildClose(s)
         \/ \E c \in ExitCodes : ChildExit(c)

\* ------------------------------------------------------------ the parent
\* Ghost bookkeeping of one operation of kind `kind` on stream s.  The first
\* operation of an iteration starts a new per-iteration record.
Log(kind, s, first) ==
  /\ ops' = Append(IF first THEN <<>> ELSE ops, <<kind, s>>)
  /\ did' = did \cup {kind}

\* The loop body is entered from before the loop (no operation yet, or the
\* fcntl configuration) or over the loop's back edge, after the sleep.
AtLoopTop == ops = <<>> \/ ops[Len(ops)][1] \in {"configure", "sleep"}

\* A read attempt on the current stream after the child's exit is a drain
\* pass that cannot miss output.
NoteDrain == drained' = IF child = "exited" THEN drained \cup {cur} ELSE drained

\* Mutant of the block order: the exit poll follows the stdout block at
\* once and the stderr block is skipped.
NextBlock_SkipStderr == pc' = "try_wait" /\ cur' = "stdout"

\* Leaving the drain block of the current stream: stderr's block follows
\* stdout's, try_wait follows stderr's (main.rs:113-128, 140-155).
NextBlock ==
  IF cur = "stdout"
    THEN pc' = DrainEntry /\ cur' = "stderr"
    ELSE pc' = "try_wait" /\ cur' = "stdout"

\* Mutant of `break Err(e)`: the error is swallowed and the iteration goes
\* on to its sleep.
BreakErr_Swallowed ==
  /\ loopst' = loopst /\ pc' = "sleep"

\* `break Err(e)`: the loop expression yields Err (main.rs:111, 138, 158).
BreakErr ==
  /\ loopst' = "Failed" /\ pc' = "after_loop"

\* `?` on an Err inside main: main returns Err, the process ends with
\* status 1 and nothing more runs (main.rs:72, 106, 107, 118, 119, ...).
ReturnErr ==
  /\ loopst' = (IF loopst = "Running" THEN "Failed" ELSE loopst)
  /\ status' = Some(1) /\ pc' = "done" /\ faulted' = TRUE

\* Command::new("ping")...spawn()? (main.rs:64-72), then the take() of both
\* pipe handles (74-75) and the creation of the buffers (83-85).
SpawnOk ==
  /\ pc = "spawn"
  /\ child' = "running"
  /\ open' = [s \in Streams |-> TRUE]
  /\ IF variant = "unix"
       THEN pc' = "configure" /\ loopst' = loopst
       ELSE pc' = DrainEntry /\ loopst' = "Running"
  /\ UNCHANGED <<variant, exitCode, sent, pipe, cur, exit, status,
                 scratchpad, n, buf, sink, printed, ops, did, drained, rd, faulted>>

\* Mutant of the spawn failure: the error is dropped and main goes on.
SpawnFail_Ignored ==
  /\ pc = "spawn"
  /\ pc' = DrainEntry /\ loopst' = "Running" /\ faulted' = TRUE
  /\ UNCHANGED <<variant, exitCode, child, sent, open, pipe, cur, exit, status,
                 scratchpad, n, buf, sink, printed, ops, did, drained, rd>>

SpawnFail ==
  /\ pc = "spawn"
  /\ ReturnErr
  /\ UNCHANGED <<variant, exitCode, child, sent, open, pipe, cur, exit,
                 scratchpad, n, buf, sink, printed, ops, did, drained, rd>>

\* #[cfg(unix)] fcntl(F_SETFL, O_NONBLOCK) on both pipes, each unwrap()ed
\* (main.rs:77-81).  A failure panics: the process ends with status 101.
Configure ==
  /\ pc = "configure"
  /\ \/ /\ pc' = DrainEntry /\ loopst' = "Running"
        /\ Log("configure", "-", TRUE)
        /\ UNCHANGED <<status, faulted>>
     \/ /\ pc' = "done" /\ status' = Some(101) /\ faulted' = TRUE
        /\ UNCHANGED <<loopst, ops, did>>
  /\ UNCHANGED <<variant, exitCode, child, sent, open, pipe, cur, exit,
                 scratchpad, n, buf, sink, printed, drained, rd>>

\* Mutant of the Ok(0) arm: a zero-byte read taken as end of stream ends
\* the loop.
ZeroArm_Eof == loopst' = "Exited" /\ pc' = "after_loop" /\ UNCHANGED cur

\* The arm `Ok(0) => {}` (main.rs:104, 131): nothing happens, the drain
\* block of the stream is over.
ZeroArm == NextBlock /\ UNCHANGED loopst

\* What read(2) on the O_NONBLOCK read end of pipe s can return: the bytes
\* at the head of the pipe, at most a buffer-full; EAGAIN on an empty pipe
\* that still has a writer; 0 (end of file) on an empty pipe without one;
\* or, at any time, some other error.
UnixReadResults(s) ==
  { IF Len(pipe[s]) > 0 THEN [kind |-> "Ok", n |-> ReadLen(Len(pipe[s]))]
    ELSE IF open[s] THEN [kind |-> "WouldBlock", n |-> 0]
    ELSE [kind |-> "Ok", n |-> 0] }
  \cup { [kind |-> "Other", n |-> 0] }

\* #[cfg(unix)] match stdout.read(&mut scratchpad[..]) / stderr.read(..)
\* (main.rs:103-112, 130-139), arms in source order.
ReadUnix ==
  /\ pc = "read"
  /\ \E r \in UnixReadResults(cur) :
       /\ Log("read", cur, AtLoopTop)
       /\ NoteDrain
       /\ faulted' = (faulted \/ r.kind = "Other")
       /\ IF r.kind = "Ok" /\ r.n = 0 THEN
            /\ rd' = [s |-> cur, kind |-> "Zero"]
            /\ ZeroArm
            /\ UNCHANGED <<pipe, scratchpad, n>>
          ELSE IF r.kind = "Ok" THEN
            /\ rd' = [s |-> cur, kind |-> "Data"]
            /\ scratchpad' = ReadInto(scratchpad, Take(pipe[cur], r.n))
            /\ n' = r.n
            /\ pipe' = [pipe EXCEPT ![cur] = Drop(@, r.n)]
            /\ pc' = "write"
            /\ UNCHANGED <<loopst, cur>>
          ELSE IF IsWouldBlock(r.kind) THEN
            /\ rd' = [s |-> cur, kind |-> r.kind]
            /\ NextBlock
            /\ UNCHANGED <<loopst, pipe, scratchpad, n>>
          ELSE
            /\ rd' = [s |-> cur, kind |-> r.kind]
            /\ BreakErr
            /\ UNCHANGED <<cur, pipe, scratchpad, n>>
  /\ UNCHANGED <<variant, exitCode, child, sent, open, exit, status,
                 buf, sink, printed>>

\* windows_pipe_utils::can_read (main.rs:20-42).  PeekNamedPipe fails on a
\* broken pipe (no writer, no data) and can fail, at any time, with some
\* other error; bytes_avail then keeps its initial 0.  The function returns
\* Ok(bytes_avail > 0) whether or not the call failed.
PeekOk(s) == Len(pipe[s]) > 0 \/ open[s]
PeekResults(s) ==
  { [ok |-> PeekOk(s), avail |-> Len(pipe[s]),
     err |-> IF PeekOk(s) THEN "None" ELSE "BrokenPipe"],
    [ok |-> FALSE, avail |-> 0, err |-> "Other"] }
BytesAvail(p) == IF p.ok THEN p.avail ELSE 0
\* Mutant of can_read: it answers true whatever the count.
CanRead_Always(p) == [kind |-> "Ok", v |-> TRUE]
CanRead(p) == [kind |-> "Ok", v |-> BytesAvail(p) > 0]

\* #[cfg(windows)] if can_read(&stdout)? (main.rs:118, 145).
PeekWindows ==
  /\ pc = "peek"
  /\ Log("peek", cur, AtLoopTop)
  /\ NoteDrain
  /\ \E p \in PeekResults(cur) :
       LET r == CanRead(p) IN
       IF r.kind # "Ok" THEN
         /\ rd' = [s |-> cur, kind |-> "Other"]
         /\ ReturnErr
         /\ UNCHANGED cur
       ELSE IF r.v THEN
         /\ rd' = [s |-> cur, kind |-> "PeekData"]
         /\ pc' = "readfile"
         /\ UNCHANGED <<cur, loopst, status, faulted>>
       ELSE
         /\ rd' = [s |-> cur, kind |-> IF p.ok THEN "PeekZero"
                                       ELSE IF p.err = "BrokenPipe" THEN "PeekBroken"
                                       ELSE "PeekFailed"]
         /\ NextBlock
         /\ UNCHANGED <<loopst, status, faulted>>
  /\ UNCHANGED <<variant, exitCode, child, sent, open, pipe, exit,
                 scratchpad, n, buf, sink, printed>>

\* What ReadFile on pipe s can return (windows_pipe_utils::read_pipe,
\* main.rs:44-60): the bytes at the head of the pipe, at most a buffer-full,
\* or an error.  It is called only after can_read reported data, and the
\* parent is the pipe's only reader.
ReadPipeResults(s) ==
  { [kind |-> "Ok", n |-> ReadLen(Len(pipe[s]))], [kind |-> "Other", n |-> 0] }

\* let n = read_pipe(&mut stdout, &mut scratchpad[..])?; if n != 0 {..}
\* (main.rs:119-120, 146-147).
ReadFileWindows ==
  /\ pc = "readfile"
  /\ \E r \in ReadPipeResults(cur) :
       /\ Log("read", cur, FALSE)
       /\ IF r.kind # "Ok" THEN
            /\ rd' = [s |-> cur, kind |-> r.kind]
            /\ ReturnErr
            /\ UNCHANGED <<cur, pipe, scratchpad, n>>
          ELSE
            /\ rd' = [s |-> cur, kind |-> IF r.n # 0 THEN "Data" ELSE "Zero"]
            /\ scratchpad' = ReadInto(scratchpad, Take(pipe[cur], r.n))
            /\ n' = r.n
            /\ pipe' = [pipe EXCEPT ![cur] = Drop(@, r.n)]
            /\ IF r.n # 0 THEN pc' = "write" /\ cur' = cur ELSE NextBlock
            /\ UNCHANGED <<loopst, status, faulted>>
  /\ UNCHANGED <<variant, exitCode, child, sent, open, exit, buf, sink,
                 printed, drained>>

\* io::stdout().write_all(&scratchpad[..n])? / io::stderr().write_all(..)?
\* (main.rs:106, 121, 133, 148).  A failing write_all may have written a
\* proper prefix of the chunk first.
WriteAll ==
  /\ pc = "write"
  /\ Log("write", cur, FALSE)
  /\ \/ /\ sink' = [sink EXCEPT ![cur].written = @ \o Chunk]
        /\ pc' = "flush"
        /\ UNCHANGED <<loopst, status, faulted>>
     \/ /\ \E k \in 0..(n - 1) :
             sink' = [sink EXCEPT ![cur].written = @ \o Take(Chunk, k)]
        /\ ReturnErr
  /\ UNCHANGED <<variant, exitCode, child, sent, open, pipe, cur, exit,
                 scratchpad, n, buf, printed, drained, rd>>

\* Mutant of the flush: its error is dropped (`let _ = ..flush();`) and the
\* chunk is accumulated all the same.
Flush_IgnoreErr ==
  /\ pc = "flush"
  /\ Log("flush", cur, FALSE)
  /\ \/ /\ sink' = [sink EXCEPT ![cur].flushed = Len(sink[cur].written)]
        /\ pc' = "extend"
        /\ UNCHANGED <<loopst, status, faulted>>
     \/ /\ pc' = "extend" /\ faulted' = TRUE
        /\ UNCHANGED <<sink, loopst, status>>
  /\ UNCHANGED <<variant, exitCode, child, sent, open, pipe, cur, exit,
                 scratchpad, n, buf, printed, drained, rd>>

\* io::stdout().flush()? / io::stderr().flush()? (main.rs:107, 122, 134, 149).
Flush ==
  /\ pc = "flush"
  /\ Log("flush", cur, FALSE)
  /\ \/ /\ sink' = [sink EXCEPT ![cur].flushed = Len(sink[cur].written)]
        /\ pc' = "extend"
        /\ UNCHANGED <<loopst, status, faulted>>
     \/ /\ ReturnErr
        /\ UNCHANGED sink
  /\ UNCHANGED <<variant, exitCode, child, sent, open, pipe, cur, exit,
                 scratchpad, n, buf, printed, drained, rd>>

\* stdout_buf.extend_from_slice(&scratchpad[..n]) / stderr_buf.. (main.rs:108,
\* 123, 135, 150); the drain block of the stream ends here.
ExtendFromSlice ==
  /\ pc = "extend"
  /\ Log("extend", cur, FALSE)
  /\ buf' = [buf EXCEPT ![cur] = Extend(@, Chunk)]
  /\ NextBlock
  /\ UNCHANGED <<variant, exitCode, child, sent, open, pipe, loopst,
                 exit, status, scratchpad, n, sink, printed, drained, rd,
                 faulted>>

\* What child.try_wait() can return: Ok(Some(status)) once the child has
\* exited, Ok(None) while it runs, or an error.
TryWaitResults ==
  { [kind |-> "Ok", v |-> IF child = "exited" THEN exitCode ELSE NoneV],
    [kind |-> "Err", v |-> NoneV] }

\* Mutant of the Ok(None) arm: the arm is missing, and the arm after it,
\* written Ok(status) => break Ok(status), gets the None as well.
StillRunning_Never(r) == FALSE

\* Mutant of the Ok(None) arm: written as Ok(_), it also swallows Some.
StillRunning_AnyOk(r) == r.kind = "Ok"

\* The arm `Ok(None) => {}` (main.rs:156): the child is still running.
StillRunning(r) == r.kind = "Ok" /\ r.v = NoneV

\* Mutant of the exit poll: child.wait() in place of child.try_wait(); the
\* parent sits in the call until the child has exited.
TryWait_Blocking ==
  /\ pc = "try_wait"
  /\ child = "exited"
  /\ Log("try_wait", "-", FALSE)
  /\ loopst' = "Exited" /\ exit' = exitCode /\ pc' = "after_loop"
  /\ UNCHANGED <<variant, exitCode, child, sent, open, pipe, cur, status,
                 scratchpad, n, buf, sink, printed, drained, rd, faulted>>

\* Mutant of the loop's tail: the sleep is left out and the next iteration
\* starts at once.
TryWait_NoSleep ==
  /\ pc = "try_wait"
  /\ Log("try_wait", "-", FALSE)
  /\ \E r \in TryWaitResults :
       /\ faulted' = (faulted \/ r.kind = "Err")
       /\ IF StillRunning(r) THEN
            /\ pc' = DrainEntry
            /\ UNCHANGED <<loopst, exit>>
          ELSE IF r.kind = "Ok" THEN
            /\ loopst' = "Exited" /\ exit' = r.v /\ pc' = "after_loop"
          ELSE
            /\ BreakErr
            /\ UNCHANGED exit
  /\ UNCHANGED <<variant, exitCode, child, sent, open, pipe, cur, status,
                 scratchpad, n, buf, sink, printed, drained, rd>>

\* match child.try_wait() (main.rs:155-159), arms in source order.
TryWait ==
  /\ pc = "try_wait"
  /\ Log("try_wait", "-", FALSE)
  /\ \E r \in TryWaitResults :
       /\ faulted' = (faulted \/ r.kind = "Err")
       /\ IF StillRunning(r) THEN
            /\ pc' = "sleep"
            /\ UNCHANGED <<loopst, exit>>
          ELSE IF r.kind = "Ok" THEN
            /\ loopst' = "Exited" /\ exit' = r.v /\ pc' = "after_loop"
          ELSE
            /\ BreakErr
            /\ UNCHANGED exit
  /\ UNCHANGED <<variant, exitCode, child, sent, open, pipe, cur, status,
                 scratchpad, n, buf, sink, printed, drained, rd>>

\* std::thread::sleep(Duration::from_millis(10)) (main.rs:161), then the
\* next iteration.
Sleep ==
  /\ pc = "sleep"
  /\ Log("sleep", "-", FALSE)
  /\ pc' = DrainEntry
  /\ UNCHANGED <<variant, exitCode, child, sent, open, pipe, cur, loopst,
                 exit, status, scratchpad, n, buf, sink, printed, drained, rd,
                 faulted>>

\* `let Some(exit) = loop {..}? else { println!("Failed execution");
\* exit(1) }` (main.rs:100, 162-166): `?` returns an Err from main, a None
\* takes the else branch, a Some binds exit.
AfterLoop ==
  /\ pc = "after_loop"
  /\ IF loopst = "Failed" THEN
       /\ status' = Some(1) /\ pc' = "done"
       /\ UNCHANGED <<printed, ops, did>>
     ELSE IF exit = NoneV THEN
       /\ printed' = <<"Failed execution">>
       /\ status' = Some(1) /\ pc' = "done"
       /\ Log("fallback", "-", FALSE)
     ELSE
       /\ pc' = "report"
       /\ UNCHANGED <<status, printed, ops, did>>
  /\ UNCHANGED <<variant, exitCode, child, sent, open, pipe, cur, loopst,
                 exit, scratchpad, n, buf, sink, drained, rd, faulted>>

\* Mutant of the report: the scratch buffer's length in place of the
\* accumulators'.
ReportLines_Scratch == <<exit[1], Len(scratchpad), Len(scratchpad)>>

\* What the three println! print: the exit status and the two byte counts
\* (main.rs:168-170).
ReportLines == <<exit[1], Len(stdout_buf), Len(stderr_buf)>>

\* The report and Ok(()) (main.rs:168-172).
Report ==
  /\ pc = "report"
  /\ printed' = ReportLines
  /\ status' = Some(0)
  /\ pc' = "done"
  /\ Log("report", "-", FALSE)
  /\ UNCHANGED <<variant, exitCode, child, sent, open, pipe, cur, loopst,
                 exit, scratchpad, n, buf, sink, drained, rd, faulted>>

Parent == \/ SpawnOk \/ SpawnFail \/ Configure
          \/ ReadUnix \/ PeekWindows \/ ReadFileWindows
          \/ WriteAll \/ Flush \/ ExtendFromSlice
          \/ TryWait \/ Sleep \/ AfterLoop \/ Report

Next == Parent \/ Child

Spec == Init /\ [][Next]_vars

\* The parent is a running thread and every one of its steps returns (no
\* call in the loop blocks, the sleep ends); the child eventually exits.
ChildExits == \E c \in ExitCodes : ChildExit(c)
LiveSpec == Spec /\ WF_vars(Parent) /\ WF_vars(ChildExits)

\* The parent alone is scheduled fairly: the child may stay where it is
\* for ever, as a child blocked in a write to a full pipe does.
BlockSpec == Spec /\ WF_vars(Parent)

\* ------------------------------------------------------------ claims
LastOp == ops[Len(ops)]
\* The step is a read attempt (a read, or the windows availability query).
ReadAttempt == ops' # ops /\ ops'[Len(ops')][1] \in {"read", "peek"}
NoDataKinds == {"WouldBlock", "Zero", "PeekZero", "PeekBroken"}

\* C1: when the loop ends in Exited, the stdout accumulator is exactly the
\* byte sequence the child wrote to stdout before it exited.
C1_Completeness == loopst = "Exited" => stdout_buf = Written("stdout")

\* C2: when the loop ends in Exited, a read attempt on stdout and one on
\* stderr have happened after the child's exit.
C2_DrainAfterExit == loopst = "Exited" => drained = Streams

\* C3: once a read on a pipe has failed with an error other than
\* would-block, the loop is Failed, the failing read is the last operation
\* of its iteration and of the run (no read of the other pipe, no exit
\* poll, no sleep follows), and nothing is reported.
C3_FatalPropagation ==
  rd.kind = "Other" =>
    /\ loopst = "Failed"
    /\ pc \in {"after_loop", "done"}
    /\ ops # <<>> /\ LastOp = <<"read", rd.s>>
    /\ (rd.s = "stdout" =>
          \A i \in 1..Len(ops) : ops[i] \notin {<<"read", "stderr">>, <<"peek", "stderr">>})
    /\ \A i \in 1..Len(ops) : ops[i][1] \notin {"try_wait", "sleep", "report"}
    /\ printed = <<>>
    /\ status \in {NoneV, Some(1)}

\* A stdout read has failed while stderr still holds unread bytes, and the
\* run is over.
C3_Witness ==
  /\ rd = [s |-> "stdout", kind |-> "Other"] /\ pc = "done"
  /\ Len(pipe["stderr"]) > 0 /\ Len(stdout_buf) > 0

\* C4: a read attempt that finds no pending data (would-block, zero bytes
\* available, a zero-byte read) changes neither accumulator, forwards
\* nothing to a parent stream, consumes nothing and leaves the loop Running.
C4_ZeroReadIdempotent ==
  [][(ReadAttempt /\ rd'.kind \in NoDataKinds) =>
       /\ buf' = buf /\ sink' = sink /\ pipe' = pipe
       /\ loopst' = "Running" /\ loopst = "Running"
       /\ faulted' = faulted]_vars

\* Both read attempts of an iteration found no data, after earlier
\* iterations had accumulated stdout bytes.
C4_Witness ==
  /\ rd.kind \in NoDataKinds /\ Len(ops) = 2 /\ pc = "try_wait"
  /\ Len(stdout_buf) > 0 /\ loopst = "Running"

\* C5: a child that writes a,b,c to stdout and x,y to stderr and exits with
\* 7 leaves, in every run without an I/O failure, the loop in Exited(7),
\* the accumulators a,b,c and x,y, and the printed counts 3 and 2.
C5_EndToEnd ==
  (/\ child = "exited" /\ exitCode = Some(7)
   /\ sent = [s \in Streams |-> IF s = "stdout" THEN 3 ELSE 2]
   /\ pc = "done" /\ ~faulted) =>
    /\ loopst = "Exited" /\ exit = Some(7)
    /\ stdout_buf = <<97, 98, 99>> /\ stderr_buf = <<120, 121>>
    /\ printed = <<7, 3, 2>>

\* C6: for a child that writes nothing and exits with 0, in every run
\* without an injected I/O failure the loop is never Failed, both
\* accumulators stay empty, nothing is forwarded, and a finished run is in
\* Exited(0) with the report 0, 0, 0 and the parent's status 0.
C6_SilentChild ==
  (/\ child = "exited" /\ exitCode = Some(0)
   /\ \A s \in Streams : sent[s] = 0
   /\ ~faulted) =>
    /\ loopst # "Failed"
    /\ \A s \in Streams : buf[s] = <<>> /\ sink[s].written = <<>>
    /\ (loopst = "Exited" => exit = Some(0))
    /\ (pc = "done" =>
          loopst = "Exited" /\ printed = <<0, 0, 0>> /\ status = Some(0))

\* A silent child's exit was observed only after at least one full
\* iteration had run (and slept), and the run has reported.
C6_Witness ==
  /\ child = "exited" /\ exitCode = Some(0) /\ \A s \in Streams : sent[s] = 0
  /\ pc = "done" /\ loopst = "Exited" /\ "sleep" \in did
  /\ printed = <<0, 0, 0>>

\* C7: when the child cannot be launched, the run is over at once with the
\* parent's status 1: the loop never starts, and no read, exit poll, sleep
\* or report ever happens.
C7_SpawnFailure ==
  child = "none" =>
    /\ pc \in {"spawn", "done"}
    /\ loopst = "NotStarted"
    /\ did = {} /\ ops = <<>> /\ printed = <<>>
    /\ \A s \in Streams : buf[s] = <<>> /\ sink[s].written = <<>>
    /\ (pc = "done" => faulted /\ status = Some(1))

\* The spawn has failed and the run is over.
C7_Witness == child = "none" /\ pc = "done" /\ status = Some(1)

C9_PrefixOrder ==
  /\ [](\A s \in Streams : IsPrefix(buf[s], Written(s)))
  /\ [][\A s \in Streams : IsPrefix(buf[s], buf'[s])]_vars

\* Both accumulators hold bytes, stdout's built from more than one chunk.
C9_Witness ==
  /\ Len(stdout_buf) > ScratchLen /\ Len(stderr_buf) > 0
  /\ stdout_buf = Written("stdout")

\* C10: with a parent that keeps running and a child that eventually
\* exits, every run in which no I/O operation fails ends in Exited with
\* the child's actual exit status; after the child's exit the loop does
\* not stay Running; and Exited always carries the child's status.
C10_Terminates ==
  /\ <>(faulted \/ (loopst = "Exited" /\ pc = "done"))
  /\ (child = "exited") ~> (loopst # "Running")
  /\ [](loopst = "Exited" => exit # NoneV /\ exit = exitCode)

\* The loop has ended in Exited(7) after at least one full iteration.
C10_Witness ==
  /\ loopst = "Exited" /\ exit = Some(7) /\ pc = "done" /\ "sleep" \in did

\* The kind of operation that is a stream's read attempt in the build
\* variant: the read itself, or the availability query that guards it.
AttemptKind == IF variant = "unix" THEN "read" ELSE "peek"
IsLoopStep(o) == o[1] \in {AttemptKind, "try_wait", "sleep"}
\* The read attempts, exit poll and sleep of the current iteration, in order.
LoopSteps == SelectSeq(ops, IsLoopStep)
IterationOrder ==
  << <<AttemptKind, "stdout">>, <<AttemptKind, "stderr">>,
     <<"try_wait", "-">>, <<"sleep", "-">> >>

\* C11: the read attempts, the exit poll and the sleep of an iteration
\* always form a prefix of: stdout attempt, stderr attempt, exit poll,
\* sleep (each at most once, in this order); the exit poll happens, and
\* Exited is reached, only with both attempts of the iteration done.
C11_FixedOrder ==
  /\ IsPrefix(LoopSteps, IterationOrder)
  /\ \A s \in Streams :
       Cardinality({i \in 1..Len(ops) : ops[i] = <<"read", s>>}) <= 1
  /\ (pc = "try_wait" => LoopSteps = Take(IterationOrder, 2))
  /\ (loopst = "Exited" => LoopSteps = Take(IterationOrder, 3))

\* An iteration that read data from both pipes has polled the exit status
\* and found the child running.
C11_Witness ==
  /\ pc = "sleep" /\ LoopSteps = Take(IterationOrder, 3)
  /\ <<"extend", "stdout">> \in {ops[i] : i \in 1..Len(ops)}
  /\ <<"extend", "stderr">> \in {ops[i] : i \in 1..Len(ops)}

\* C12: the loop leaves Running only in a step that is the exit poll
\* returning the exited child's status, or in a step in which an I/O
\* operation fails; a zero-byte read never ends it.  While the child runs
\* and no operation has failed, the loop is iterating.
C12_ZeroIsNotEof ==
  /\ [][(loopst = "Running" /\ loopst' # "Running") =>
          \/ /\ loopst' = "Exited" /\ pc = "try_wait"
             /\ child = "exited" /\ exit' = exitCode
          \/ /\ loopst' = "Failed" /\ ~faulted /\ faulted']_vars
  /\ []((child = "running" /\ ~faulted /\ loopst # "NotStarted") =>
          loopst = "Running" /\ pc \notin {"after_loop", "report", "done"})

\* The child, still running, has closed both streams; the stderr read of
\* the last iteration returned zero bytes and the loop has slept and is
\* at the top of its next iteration.
C12_Witness ==
  /\ child = "running" /\ \A s \in Streams : ~open[s] /\ pipe[s] = <<>>
  /\ rd = [s |-> "stderr", kind |-> "Zero"]
  /\ ops # <<>> /\ ops[Len(ops)][1] = "sleep" /\ Len(ops) = 4
  /\ loopst = "Running" /\ pc = DrainEntry

\* C13: per stream, the bytes forwarded to the parent's own stream and the
\* bytes in the accumulator are the same sequence whenever the parent is
\* between chunks, and every forwarded byte is flushed; inside a chunk the
\* forwarded bytes lead the accumulator by exactly that chunk.  What is
\* forwarded on a stream is a prefix of what the child wrote to that same
\* stream, so no byte of one stream shows up on the other.
C13_ForwardAccumulate ==
  \A s \in Streams :
    /\ IsPrefix(buf[s], sink[s].written)
    /\ IsPrefix(sink[s].written, Written(s))
    /\ (pc \in {"write", "flush", "extend"} /\ s # cur) =>
         sink[s].written = buf[s] /\ sink[s].flushed = Len(buf[s])
    /\ pc \in {"read", "peek", "readfile", "try_wait", "sleep",
               "after_loop", "report"} =>
         sink[s].written = buf[s] /\ sink[s].flushed = Len(buf[s])
    /\ (pc = "extend" /\ s = cur) =>
         /\ sink[s].written = buf[s] \o Chunk
         /\ sink[s].flushed = Len(sink[s].written)
    /\ (pc = "done" /\ loopst = "Exited") => sink[s].written = buf[s]

\* A one-byte stderr chunk has gone through the scratch buffer while the
\* second byte of an earlier stdout chunk was still in it; both chunks are
\* forwarded and accumulated.
C13_Witness ==
  /\ pc = "try_wait"
  /\ scratchpad = <<ByteOf("stderr", 1), ByteOf("stdout", 2)>>
  /\ buf["stdout"] = DataOf("stdout", 2) /\ buf["stderr"] = DataOf("stderr", 1)
  /\ \A s \in Streams : sink[s].written = buf[s]

\* C14: a step in which write_all or flush of a chunk fails ends the run
\* at once: the loop is Failed, the process status is 1, the accumulators
\* are what they were (the chunk is not appended), nothing is printed; and
\* once the run has ended the parent does nothing more (no read, exit poll,
\* sleep or report).
C14_WriteFailureFatal ==
  /\ [][(pc \in {"write", "flush"} /\ ~faulted /\ faulted') =>
          /\ pc' = "done" /\ loopst' = "Failed" /\ status' = Some(1)
          /\ buf' = buf /\ printed' = <<>>]_vars
  /\ [][pc = "done" => UNCHANGED parentVars]_vars
  /\ []((faulted /\ ops # <<>> /\ LastOp[1] \in {"write", "flush"}) =>
          pc = "done" /\ loopst = "Failed" /\ printed = <<>>)

\* The flush of a stderr chunk has failed after stdout chunks went through:
\* the run is over, the chunk is forwarded but not accumulated.
C14_Witness ==
  /\ pc = "done" /\ faulted /\ ops # <<>> /\ LastOp = <<"flush", "stderr">>
  /\ buf["stdout"] # <<>> /\ printed = <<>> /\ status = Some(1)
  /\ Len(sink["stderr"].written) > Len(buf["stderr"])

\* C15: in both variants, a read attempt that failed (an error of the
\* read, or in the peek-then-read variant a failure of the availability
\* query, a broken pipe included) has put the loop in Failed and ended the
\* run; the failure is not treated as "no data".
C15_FailureSurfaces ==
  rd.kind \in {"Other", "PeekBroken", "PeekFailed"} =>
    loopst = "Failed" /\ pc \in {"after_loop", "done"}

\* C16: the loop is about to sleep only right after an exit poll that left
\* it Running; a sleep is followed by the first read attempt of the next
\* iteration and is the only way into a second iteration; an iteration's
\* record holds at most one sleep, and none once the loop is Exited or
\* Failed.  The exit poll goes to the sleep exactly when it leaves the
\* loop Running.
C16_Sleeps == {i \in 1..Len(ops) : ops[i][1] = "sleep"}
C16_SleepOnlyRunning ==
  /\ [](pc = "sleep" => loopst = "Running" /\ LastOp = <<"try_wait", "-">>)
  /\ []((ops # <<>> /\ LastOp[1] = "sleep") =>
          loopst = "Running" /\ pc = DrainEntry /\ cur = "stdout")
  /\ []((pc = DrainEntry /\ cur = "stdout" /\ "try_wait" \in did) =>
          LastOp[1] = "sleep")
  /\ [](C16_Sleeps \subseteq {Len(ops)})
  /\ [](loopst \in {"Exited", "Failed"} => C16_Sleeps = {})
  /\ [][(pc = "try_wait" /\ pc' # pc) =>
          /\ pc' = "sleep" <=> loopst' = "Running"
          /\ pc' = "sleep" <=> (child = "running" /\ ~faulted')]_vars

\* A second iteration is under way: the exit poll of the first found the
\* child running, the loop slept, and the stdout attempt has been made.
C16_Witness ==
  /\ "sleep" \in did /\ "try_wait" \in did
  /\ ops = <<<<AttemptKind, "stdout">>>>
  /\ loopst = "Running" /\ child = "running"

\* C17: no read can block.  Flag-based variant: the non-blocking mode is
\* set once, before the loop, every read comes after it, and a failure to
\* set it ends the run with no read made.  Peek-based variant: a read is
\* issued on a pipe only directly after that iteration's availability
\* query on the same pipe reported a nonzero count, the pipe then holds
\* data, and a zero count or failed query is followed by no read of that
\* pipe in the iteration.
C17_OpSet == {ops[i] : i \in 1..Len(ops)}
C17_NoBlockingRead ==
  /\ [](variant = "unix" =>
          /\ "read" \in did => "configure" \in did
          /\ pc = "read" => "configure" \in did
          /\ status = Some(101) => "read" \notin did /\ pc = "done")
  /\ [][pc = "configure" => "configure" \notin did /\ "read" \notin did]_vars
  /\ [][pc' = "configure" => pc \in {"spawn", "configure"}]_vars
  /\ [](variant = "windows" =>
          /\ pc = "readfile" =>
               /\ Len(pipe[cur]) > 0
               /\ LastOp = <<"peek", cur>>
               /\ rd = [s |-> cur, kind |-> "PeekData"]
          /\ \A i \in 1..Len(ops) :
               ops[i][1] = "read" => i > 1 /\ ops[i - 1] = <<"peek", ops[i][2]>>
          /\ rd.kind \in {"PeekZero", "PeekBroken", "PeekFailed"} =>
               <<"read", rd.s>> \notin C17_OpSet)
  /\ [][(variant = "windows" /\ pc = "peek" /\ pc' # pc
          /\ Len(pipe[cur]) = 0) => pc' # "readfile"]_vars

\* Peek-based variant: in one iteration the query on stdout reported zero
\* and no read of stdout was made; the query on stderr reported data and
\* the read of stderr is about to be issued.
C17_Witness ==
  /\ variant = "windows" /\ pc = "readfile" /\ cur = "stderr"
  /\ ops = << <<"peek", "stdout">>, <<"peek", "stderr">> >>
  /\ pipe["stdout"] = <<>> /\ Len(pipe["stderr"]) > 0

\* C18: once the loop is Exited or Failed it stays so, both accumulators
\* stay as they are, and the only operation that can follow is the report
\* (no read, exit poll or sleep).  The exit status and the two byte counts
\* are printed if and only if the loop ended in Exited; a failed exit
\* poll puts the loop in Failed, and a Failed loop prints nothing.
C18_Terminal ==
  /\ [][(loopst = "Exited" \/ loopst = "Failed") =>
          /\ loopst' = loopst /\ buf' = buf /\ exit' = exit
          /\ pc' \in {"after_loop", "report", "done"}
          /\ ops' # ops => ops'[Len(ops')][1] = "report"]_vars
  /\ [][(pc = "try_wait" /\ ~faulted /\ faulted') =>
          loopst' = "Failed" /\ pc' = "after_loop" /\ exit' = NoneV]_vars
  /\ [](pc = "report" => loopst = "Exited")
  /\ [](loopst = "Failed" => printed = <<>>)
  /\ [](printed # <<>> => loopst = "Exited" /\ pc = "done")
  /\ []((pc = "done" /\ loopst = "Exited") =>
          /\ printed = <<exit[1], Len(stdout_buf), Len(stderr_buf)>>
          /\ status = Some(0))
  /\ []((pc = "done" /\ loopst # "Exited") =>
          printed = <<>> /\ status \in {Some(1), Some(101)})

\* The exit poll failed after stdout output had been captured: the run is
\* over, Failed, with nothing printed.
C18_Witness ==
  /\ pc = "done" /\ loopst = "Failed" /\ ops # <<>>
  /\ LastOp = <<"try_wait", "-">> /\ faulted
  /\ stdout_buf # <<>> /\ printed = <<>> /\ status = Some(1)

\* C19: with only the parent scheduled (the child may stay blocked for
\* ever), a pipe at capacity with the child running is eventually read so
\* that it has free space again, unless an I/O operation fails or the
\* child has left the write (closed the stream or exited).  A read takes at
\* most a scratch-buffer-full, and only the parent's read takes bytes out.
C19_Unblocked(s) ==
  \/ Len(pipe[s]) < PipeCap
  \/ faulted \/ rd.kind = "PeekFailed"
  \/ child # "running" \/ ~open[s]
C20_FallbackUnreachable ==
  /\ "fallback" \notin did
  /\ printed # <<"Failed execution">>
  /\ pc = "after_loop" => loopst \in {"Exited", "Failed"}
  /\ loopst = "Exited" <=> exit # NoneV
  /\ loopst = "Failed" => faulted /\ exit = NoneV
  /\ (pc = "done" /\ loopst = "Exited") => status = Some(0)

\* The loop has just yielded the exit status 0 of a child that wrote
\* nothing; the let-else is about to bind it.
C20_Witness ==
  /\ pc = "after_loop" /\ loopst = "Exited" /\ exit = Some(0)
  /\ \A s \in Streams : sent[s] = 0

====
